---------------------------- MODULE Spec2Model ----------------------------
(***************************************************************************)
(* Model of script.py of kubernetes-aws-eks-auto-scaler: scale_down        *)
(* captures the live capacity of Deployments, StatefulSets and Auto        *)
(* Scaling Groups in two AWS SSM parameters and forces it to zero (and     *)
(* suspends CronJobs); scale_up replays the stored values and resumes      *)
(* every CronJob.  Each external call of a run is one step, so that a run  *)
(* can stop between any two of them.                                       *)
(*                                                                         *)
(* Strings that the program builds or parses (the keys of the replica      *)
(* blob) are sequences of tokens, "/" being a token of its own.  A Python  *)
(* dict (and the JSON object it is stored as) is a sequence of <<key,      *)
(* value>> pairs in insertion order.  An optional argument (None when the  *)
(* flag is absent) is a record [present, items].                           *)
(***************************************************************************)
EXTENDS Integers, Sequences, FiniteSets, TLC

(***************************** bounds ***************************************)
\* Largest replica count a workload starts with.
MaxReplicas == 2
\* Largest MinSize/DesiredCapacity/MaxSize a fleet group starts with.
MaxSize == 1
\* Longest inclusion list given on the command line.
MaxIncl == 1
\* Longest exclusion list given on the command line.
MaxExcl == 1
\* Longest list a filter is applied to on its own (FilterSpec).
MaxProbe == 2

(***************************** the platform *********************************)
K8S_AWS_SSM_PARAMETER_NAME == "/kubernetes-aws-eks-auto-scaler/k8s-replica-counts"
ASG_AWS_SSM_PARAMETER_NAME == "/kubernetes-aws-eks-auto-scaler/asg-config"
ParameterNames == {K8S_AWS_SSM_PARAMETER_NAME, ASG_AWS_SSM_PARAMETER_NAME}

\* The objects of the cluster, in the order the list calls return them.
ClusterDeployments == << [namespace |-> "default", name |-> "web"] >>
ClusterStatefulSets == << [namespace |-> "default", name |-> "web"] >>
ClusterCronJobs == << [namespace |-> "default", name |-> "job"] >>
\* The Auto Scaling Groups of the account, in the order describe returns them.
ClusterAsgs == << "ng-a" >>

Range(s) == {s[n] : n \in 1..Len(s)}

\* The identity of a workload object: its kind (lowercase), namespace, name.
Id(kind, namespace, name) == [kind |-> kind, namespace |-> namespace, name |-> name]
IdsOf(kind, objs) == {Id(kind, o.namespace, o.name) : o \in Range(objs)}
DeploymentIds == IdsOf("deployment", ClusterDeployments)
StatefulSetIds == IdsOf("statefulset", ClusterStatefulSets)
CronJobIds == IdsOf("cronjob", ClusterCronJobs)
ScalableIds == DeploymentIds \cup StatefulSetIds
AsgNames == Range(ClusterAsgs)

Triple(mn, d, mx) == [MinSize |-> mn, DesiredCapacity |-> d, MaxSize |-> mx]
ZeroTriple == Triple(0, 0, 0)
\* The capacities a group can have: AWS keeps MinSize <= DesiredCapacity <= MaxSize.
Triples == {Triple(mn, d, mx) : mn \in 0..MaxSize, d \in 0..MaxSize, mx \in 0..MaxSize}
LiveTriples == {t \in Triples : t.MinSize <= t.DesiredCapacity /\ t.DesiredCapacity <= t.MaxSize}

(***************************** strings and dicts ****************************)
\* str.lower() on the spellings of a kind the command line may give.
LowerLeftAsIs(s) == s
Lower(s) ==
  CASE s \in {"Deployment", "DEPLOYMENT", "deployment"} -> "deployment"
    [] s \in {"StatefulSet", "STATEFULSET", "statefulset"} -> "statefulset"
    [] s \in {"CronJob", "CRONJOB", "cronjob"} -> "cronjob"
    [] OTHER -> s

\* f"deployment/{namespace}/{name}"
FormatKeyKindAsNamed(kind, namespace, name) ==
  << IF kind = "deployment" THEN "Deployment" ELSE "StatefulSet", "/", namespace, "/", name >>
FormatKey(kind, namespace, name) == << kind, "/", namespace, "/", name >>

\* key.split("/"): the parts between the "/" tokens, each a token sequence.
RECURSIVE SplitFrom(_, _, _)
SplitFrom(key, n, part) ==
  IF n > Len(key) THEN << part >>
  ELSE IF key[n] = "/" THEN << part >> \o SplitFrom(key, n + 1, << >>)
  ELSE SplitFrom(key, n + 1, Append(part, key[n]))
Split(key) == SplitFrom(key, 1, << >>)

DictKeys(d) == {d[n][1] : n \in 1..Len(d)}
DictHas(d, k) == k \in DictKeys(d)
DictGet(d, k) == d[CHOOSE n \in 1..Len(d) : d[n][1] = k][2]
\* d[k] = v: an existing key keeps its place, a new key goes last.
DictSet(d, k, v) ==
  IF DictHas(d, k)
  THEN [n \in 1..Len(d) |-> IF d[n][1] = k THEN << k, v >> ELSE d[n]]
  ELSE Append(d, << k, v >>)
\* d.update(new)
RECURSIVE DictUpdateFrom(_, _, _)
DictUpdateFrom(d, new, n) ==
  IF n > Len(new) THEN d
  ELSE DictUpdateFrom(DictSet(d, new[n][1], new[n][2]), new, n + 1)
DictUpdate(d, new) == DictUpdateFrom(d, new, 1)

(***************************** arguments ************************************)
None == [present |-> FALSE, items |-> << >>]
Some(items) == [present |-> TRUE, items |-> items]
\* Python's "not x" for an optional list: None and [] are both falsy.
FalsyWhenAbsent(x) == ~x.present
Falsy(x) == ~x.present \/ x.items = << >>

Ref(namespace, kind, name) == [namespace |-> namespace, kind |-> kind, name |-> name]
\* The references an inclusion list may hold; default/ghost does not exist.
InclRefs == { Ref("default", "Deployment", "web"),
              Ref("default", "statefulset", "web"),
              Ref("default", "CronJob", "job"),
              Ref("default", "deployment", "ghost") }
\* The references an exclusion list may hold.
ExclRefs == { Ref("default", "DEPLOYMENT", "web"),
              Ref("default", "cronjob", "job") }
\* The group names a list may hold; ng-x does not exist.
InclAsgs == { "ng-a", "ng-x" }
ExclAsgs == { "ng-a", "ng-x" }

\* The sequences without repetition over S of length 1..n.
SeqsUpTo(S, n) ==
  UNION { {s \in [1..m -> S] : \A a, b \in 1..m : a # b => s[a] # s[b]} : m \in 1..n }
OptionalLists(S, n) == {None, Some(<< >>)} \cup {Some(s) : s \in SeqsUpTo(S, n)}
\* The exclusion lists of the runs: absent, or with entries (the empty list is
\* given to the filters on their own, FilterSpec).
ExclusionLists(S, n) == {None} \cup {Some(s) : s \in SeqsUpTo(S, n)}

\* The workload inclusion lists of the runs, one of them naming an object that
\* exists before one that does not.
WebThenGhost == << Ref("default", "Deployment", "web"), Ref("default", "deployment", "ghost") >>
InclusionLists == OptionalLists(InclRefs, MaxIncl) \cup {Some(WebThenGhost)}

NoArgs ==
  [ k8s_resources |-> None, aws_asg_resources |-> None,
    exclude_k8s_resources |-> None, exclude_aws_asg_resources |-> None ]

(***************************** the filters **********************************)
filter_excluded_k8s_resources_kept(kind, resources, exclude_list) == resources
filter_excluded_k8s_resources(kind, resources, exclude_list) ==
  IF Falsy(exclude_list) THEN resources
  ELSE LET exclude_set ==
             { << res.namespace, Lower(res.kind), res.name >> : res \in Range(exclude_list.items) }
           Keep(res) == << res.namespace, Lower(kind), res.name >> \notin exclude_set
       IN SelectSeq(resources, Keep)

filter_excluded_asgs(asg_list, exclude_list) ==
  IF Falsy(exclude_list) THEN asg_list
  ELSE LET Keep(a) == a \notin Range(exclude_list.items)
       IN SelectSeq(asg_list, Keep)


(***************************** state ****************************************)
VARIABLES
  replicas,            \* spec.replicas of every Deployment and StatefulSet
  suspend,             \* spec.suspend of every CronJob
  asg,                 \* MinSize, DesiredCapacity, MaxSize of every group
  ssm,                 \* the two SSM parameters: [exists, value]
  pc,                  \* where the run is; "idle" between runs
  action,              \* args.action of the run
  args,                \* the arguments of scale_down
  i,                   \* the position of the loop the run is in
  all_deployments,     \* locals of scale_down
  all_statefulsets,
  all_cronjobs,
  k8s_scaling_data,    \* local of scale_down and of scale_up
  aws_asg_resources,
  asg_scaling_data,    \* local of scale_down and of scale_up
  existing_data,       \* local of update_ssm_parameter
  cronjobs,            \* local of scale_up
  calls,               \* the state-changing calls the run has made, in order
  start,               \* the platform and the store when the run started
  prev,                \* what is remembered of the completed run before this one
  probe,               \* a filter applied on its own: its input and its result
  writers              \* update_ssm_parameter called by two runs at once: each call's position and locals

live == << replicas, suspend, asg >>
locals == << i, all_deployments, all_statefulsets, all_cronjobs, k8s_scaling_data,
             aws_asg_resources, asg_scaling_data, existing_data, cronjobs >>
vars == << replicas, suspend, asg, ssm, pc, action, args, i, all_deployments,
           all_statefulsets, all_cronjobs, k8s_scaling_data, aws_asg_resources,
           asg_scaling_data, existing_data, cronjobs, calls, start, prev, probe, writers >>

NotFound == [exists |-> FALSE, value |-> << >>]
Parameter(value) == [exists |-> TRUE, value |-> value]
Snapshot == [replicas |-> replicas, suspend |-> suspend, asg |-> asg, ssm |-> ssm]
Call(op, target) == << op, target >>
AsgId(name) == Id("asg", "", name)

\* Nothing is remembered of the run before: any run may follow.  Otherwise prev
\* says how the next run follows a completed one, with no other actor in between:
\*   "round-trip"  scale-up follows a scale-down that selected the workloads
\*                 prev.selected, whose counts were prev.replicas, the store prev.ssm,
\*                 the suspend flags prev.suspend;
\*   "repeat"      scale-down follows a scale-down, with the same prev.args;
\*   "replay"      scale-up follows a scale-up, another actor having changed one
\*                 resource in between (prev.changed).
\* The same successions happen with nothing remembered, from the same states.
NoPrev ==
  [kind |-> "none", args |-> NoArgs, selected |-> {},
   replicas |-> [id \in ScalableIds |-> 0], suspend |-> [id \in CronJobIds |-> FALSE],
   ssm |-> [p \in ParameterNames |-> NotFound], changed |-> FALSE]
\* The operators who run scale-down at the same time.
Operators == {"op-1", "op-2"}
NoWriters ==
  [w \in Operators |-> [pc |-> "returned", new_data |-> << >>, existing_data |-> << >>]]
NoProbe == [fn |-> "none", kind |-> "", resources |-> << >>, exclude_list |-> None,
            result |-> << >>, applied |-> FALSE]

InitRun ==
  /\ pc = "idle"
  /\ action = "none"
  /\ args = NoArgs
  /\ i = 1
  /\ all_deployments = << >>
  /\ all_statefulsets = << >>
  /\ all_cronjobs = << >>
  /\ k8s_scaling_data = << >>
  /\ aws_asg_resources = << >>
  /\ asg_scaling_data = << >>
  /\ existing_data = << >>
  /\ cronjobs = << >>
  /\ calls = << >>
  /\ prev = NoPrev

\* Any cluster, nothing stored yet, no run under way.
Init ==
  /\ replicas \in [ScalableIds -> 0..MaxReplicas]
  /\ suspend \in [CronJobIds -> BOOLEAN]
  /\ asg \in [AsgNames -> LiveTriples]
  /\ ssm = [p \in ParameterNames |-> NotFound]
  /\ InitRun
  /\ start = [replicas |-> replicas, suspend |-> suspend, asg |-> asg, ssm |-> ssm]
  /\ probe = NoProbe
  /\ writers = NoWriters

(***************************** scale_down ***********************************)
\* main: the dispatch to scale_down with the parsed arguments.  The two group
\* arguments are first read at line 126 and are drawn there (SdAsgFetch).
StartScaleDown ==
  /\ pc = "idle"
  /\ prev.kind \in {"none", "repeat"}
  /\ \E incl \in InclusionLists, excl \in ExclusionLists(ExclRefs, MaxExcl) :
       /\ prev.kind = "repeat" =>
            /\ incl = prev.args.k8s_resources
            /\ excl = prev.args.exclude_k8s_resources
       /\ args' = [NoArgs EXCEPT !.k8s_resources = incl, !.exclude_k8s_resources = excl]
  /\ action' = "scale-down"
  /\ pc' = "sd_fetch"
  /\ calls' = << >>
  /\ start' = Snapshot
  /\ UNCHANGED << live, ssm, locals, prev, probe, writers >>

\* The objects the read and list calls return, as the run holds them.
WorkloadObject(kind, namespace, name) ==
  [namespace |-> namespace, name |-> name, replicas |-> replicas[Id(kind, namespace, name)]]
CronJobObject(namespace, name) ==
  [namespace |-> namespace, name |-> name, suspend |-> suspend[Id("cronjob", namespace, name)]]
ListWorkloads(kind, objs) ==
  [n \in 1..Len(objs) |-> WorkloadObject(kind, objs[n].namespace, objs[n].name)]
ListCronJobs ==
  [n \in 1..Len(ClusterCronJobs) |->
     CronJobObject(ClusterCronJobs[n].namespace, ClusterCronJobs[n].name)]
\* [... for res in k8s_resources if res["kind"].lower() == kind]
NamedOfKindThatExist(kind, items) ==
  LET IsKind(res) == /\ Lower(res.kind) = kind
                     /\ Id(kind, res.namespace, res.name) \in ScalableIds \cup CronJobIds
  IN SelectSeq(items, IsKind)
NamedOfKind(kind, items) ==
  LET IsKind(res) == Lower(res.kind) = kind IN SelectSeq(items, IsKind)
Exists(kind, res) ==
  Id(kind, res.namespace, res.name) \in ScalableIds \cup CronJobIds
ReadWorkloads(kind, items) ==
  LET named == NamedOfKind(kind, items)
  IN [n \in 1..Len(named) |-> WorkloadObject(kind, named[n].namespace, named[n].name)]
ReadCronJobs(items) ==
  LET named == NamedOfKind("cronjob", items)
  IN [n \in 1..Len(named) |-> CronJobObject(named[n].namespace, named[n].name)]
\* A read of an object that does not exist raises ApiException (404).
ReadFails(items) ==
  \E kind \in {"deployment", "statefulset", "cronjob"} :
    \E res \in Range(NamedOfKind(kind, items)) : ~Exists(kind, res)

\* Where scale_down goes on: a loop over an empty list has no iteration, and the
\* store is written only for a non-empty accumulator (lines 122 and 146).
SdAfterCronJobsStoresAnyway(acc) == "sd_k8s_get"
SdAfterCronJobs(acc) == IF acc # << >> THEN "sd_k8s_get" ELSE "sd_asg_fetch"
SdAfterStatefulSets(cjs, acc) == IF cjs # << >> THEN "sd_cronjobs" ELSE SdAfterCronJobs(acc)
SdAfterDeployments(sts, cjs, acc) ==
  IF sts # << >> THEN "sd_statefulsets" ELSE SdAfterStatefulSets(cjs, acc)
SdAfterFetch(deps, sts, cjs) ==
  IF deps # << >> THEN "sd_deployments" ELSE SdAfterDeployments(sts, cjs, << >>)
SdAfterAsgs(acc) == IF acc # << >> THEN "sd_asg_get" ELSE "done"

\* Lines 79-94: fetch the working set, then filter it.
SdFetch ==
  /\ pc = "sd_fetch"
  /\ IF ~Falsy(args.k8s_resources) /\ ReadFails(args.k8s_resources.items)
     THEN /\ pc' = "failed"
          /\ UNCHANGED << all_deployments, all_statefulsets, all_cronjobs >>
     ELSE /\ all_deployments' =
               filter_excluded_k8s_resources("Deployment",
                 IF Falsy(args.k8s_resources)
                 THEN ListWorkloads("deployment", ClusterDeployments)
                 ELSE ReadWorkloads("deployment", args.k8s_resources.items),
                 args.exclude_k8s_resources)
          /\ all_statefulsets' =
               filter_excluded_k8s_resources("StatefulSet",
                 IF Falsy(args.k8s_resources)
                 THEN ListWorkloads("statefulset", ClusterStatefulSets)
                 ELSE ReadWorkloads("statefulset", args.k8s_resources.items),
                 args.exclude_k8s_resources)
          /\ all_cronjobs' =
               filter_excluded_k8s_resources("CronJob",
                 IF Falsy(args.k8s_resources)
                 THEN ListCronJobs
                 ELSE ReadCronJobs(args.k8s_resources.items),
                 args.exclude_k8s_resources)
          /\ pc' = SdAfterFetch(all_deployments', all_statefulsets', all_cronjobs')
  /\ i' = 1
  /\ k8s_scaling_data' = << >>
  /\ UNCHANGED << live, ssm, action, args, aws_asg_resources, asg_scaling_data,
                  existing_data, cronjobs, calls, start, prev, probe, writers >>

\* Lines 99 and 108: a workload is recorded and patched when its count is above zero.
ReplicasAboveZeroAlways(count) == TRUE
ReplicasAboveZero(count) == count > 0
\* Lines 101 and 110: the count that is recorded.
CapturedCountOne(obj) == 1
CapturedCount(obj) == obj.replicas

\* One iteration of a loop of lines 98-114 over the Deployments or the StatefulSets.
ScaleDownWorkload(kind, op, objs) ==
  LET obj == objs[i]
      id == Id(kind, obj.namespace, obj.name)
  IN IF ReplicasAboveZero(obj.replicas)
     THEN /\ k8s_scaling_data' =
               DictSet(k8s_scaling_data, FormatKey(kind, obj.namespace, obj.name),
                       CapturedCount(obj))
          /\ replicas' = [replicas EXCEPT ![id] = 0]
          /\ calls' = Append(calls, Call(op, id))
     ELSE UNCHANGED << k8s_scaling_data, replicas, calls >>

SdDeployments ==
  /\ pc = "sd_deployments"
  /\ ScaleDownWorkload("deployment", "patch_namespaced_deployment", all_deployments)
  /\ IF i < Len(all_deployments)
     THEN /\ i' = i + 1
          /\ pc' = pc
     ELSE /\ i' = 1
          /\ pc' = SdAfterDeployments(all_statefulsets, all_cronjobs, k8s_scaling_data')
  /\ UNCHANGED << suspend, asg, ssm, action, args, all_deployments, all_statefulsets,
                  all_cronjobs, aws_asg_resources, asg_scaling_data, existing_data,
                  cronjobs, start, prev, probe, writers >>

SdStatefulSets ==
  /\ pc = "sd_statefulsets"
  /\ ScaleDownWorkload("statefulset", "patch_namespaced_stateful_set", all_statefulsets)
  /\ IF i < Len(all_statefulsets)
     THEN /\ i' = i + 1
          /\ pc' = pc
     ELSE /\ i' = 1
          /\ pc' = SdAfterStatefulSets(all_cronjobs, k8s_scaling_data')
  /\ UNCHANGED << suspend, asg, ssm, action, args, all_deployments, all_statefulsets,
                  all_cronjobs, aws_asg_resources, asg_scaling_data, existing_data,
                  cronjobs, start, prev, probe, writers >>

\* Lines 116-123: suspend every selected CronJob; then store the replica counts, if any.
SdCronJobs ==
  /\ pc = "sd_cronjobs"
  /\ LET id == Id("cronjob", all_cronjobs[i].namespace, all_cronjobs[i].name)
     IN /\ suspend' = [suspend EXCEPT ![id] = TRUE]
        /\ calls' = Append(calls, Call("patch_namespaced_cron_job", id))
  /\ IF i < Len(all_cronjobs)
     THEN /\ i' = i + 1
          /\ pc' = pc
     ELSE /\ i' = 1
          /\ pc' = SdAfterCronJobs(k8s_scaling_data)
  /\ UNCHANGED << replicas, asg, ssm, action, args, all_deployments, all_statefulsets,
                  all_cronjobs, k8s_scaling_data, aws_asg_resources, asg_scaling_data,
                  existing_data, cronjobs, start, prev, probe, writers >>

\* update_ssm_parameter, lines 62-67: get_parameter, ParameterNotFound read as {}.
GetExisting(parameter_name) ==
  existing_data' = IF ssm[parameter_name].exists THEN ssm[parameter_name].value ELSE << >>
\* update_ssm_parameter, line 69: existing_data.update(new_data).
MergedOverwritten(existing, new_data) == new_data
Merged(existing, new_data) == DictUpdate(existing, new_data)
\* update_ssm_parameter, line 70: put_parameter(Overwrite=True) of the merged object.
PutMerged(parameter_name, new_data) ==
  /\ ssm' = [ssm EXCEPT ![parameter_name] = Parameter(Merged(existing_data, new_data))]
  /\ calls' = Append(calls, Call("put_parameter", Id("ssm", "", parameter_name)))

SdK8sGet ==
  /\ pc = "sd_k8s_get"
  /\ GetExisting(K8S_AWS_SSM_PARAMETER_NAME)
  /\ pc' = "sd_k8s_put"
  /\ UNCHANGED << live, ssm, action, args, i, all_deployments, all_statefulsets,
                  all_cronjobs, k8s_scaling_data, aws_asg_resources, asg_scaling_data,
                  cronjobs, calls, start, prev, probe, writers >>

SdK8sPut ==
  /\ pc = "sd_k8s_put"
  /\ PutMerged(K8S_AWS_SSM_PARAMETER_NAME, k8s_scaling_data)
  /\ pc' = "sd_asg_fetch"
  /\ UNCHANGED << live, action, args, locals, start, prev, probe, writers >>

\* Lines 125-132: the groups to scale down, then the exclusion.
SdAsgFetch ==
  /\ pc = "sd_asg_fetch"
  /\ \E incl \in OptionalLists(InclAsgs, MaxIncl), excl \in ExclusionLists(ExclAsgs, MaxExcl) :
       /\ prev.kind = "repeat" =>
            /\ incl = prev.args.aws_asg_resources
            /\ excl = prev.args.exclude_aws_asg_resources
       /\ args' = [args EXCEPT !.aws_asg_resources = incl, !.exclude_aws_asg_resources = excl]
       /\ aws_asg_resources' =
            filter_excluded_asgs(IF Falsy(incl) THEN ClusterAsgs ELSE incl.items, excl)
  /\ asg_scaling_data' = << >>
  /\ i' = 1
  /\ pc' = IF aws_asg_resources' # << >> THEN "sd_asgs" ELSE SdAfterAsgs(<< >>)
  /\ UNCHANGED << live, ssm, action, all_deployments, all_statefulsets, all_cronjobs,
                  k8s_scaling_data, existing_data, cronjobs, calls, start, prev, probe, writers >>

\* Line 138: a group is recorded and zeroed unless all three sizes are zero.
AsgNotAllZeroAlways(group) == TRUE
AsgNotAllZero(group) ==
  group.MinSize > 0 \/ group.DesiredCapacity # 0 \/ group.MaxSize # 0

\* Lines 136-147: describe each group, record and zero it unless it is all zero;
\* describing a group that does not exist returns no group, and [0] raises IndexError.
SdAsgs ==
  /\ pc = "sd_asgs"
  /\ LET asg_name == aws_asg_resources[i]
     IN IF asg_name \notin AsgNames
        THEN /\ pc' = "failed"
             /\ UNCHANGED << i, asg, asg_scaling_data, calls >>
        ELSE /\ IF AsgNotAllZero(asg[asg_name])
                THEN /\ asg_scaling_data' =
                          DictSet(asg_scaling_data, asg_name,
                                  Triple(asg[asg_name].MinSize,
                                         asg[asg_name].DesiredCapacity,
                                         asg[asg_name].MaxSize))
                     /\ asg' = [asg EXCEPT ![asg_name] = ZeroTriple]
                     /\ calls' = Append(calls, Call("update_auto_scaling_group", AsgId(asg_name)))
                ELSE UNCHANGED << asg, asg_scaling_data, calls >>
             /\ IF i < Len(aws_asg_resources)
                THEN /\ i' = i + 1
                     /\ pc' = pc
                ELSE /\ i' = 1
                     /\ pc' = SdAfterAsgs(asg_scaling_data')
  /\ UNCHANGED << replicas, suspend, ssm, action, args, all_deployments, all_statefulsets,
                  all_cronjobs, k8s_scaling_data, aws_asg_resources, existing_data,
                  cronjobs, start, prev, probe, writers >>

SdAsgGet ==
  /\ pc = "sd_asg_get"
  /\ GetExisting(ASG_AWS_SSM_PARAMETER_NAME)
  /\ pc' = "sd_asg_put"
  /\ UNCHANGED << live, ssm, action, args, i, all_deployments, all_statefulsets,
                  all_cronjobs, k8s_scaling_data, aws_asg_resources, asg_scaling_data,
                  cronjobs, calls, start, prev, probe, writers >>

SdAsgPut ==
  /\ pc = "sd_asg_put"
  /\ PutMerged(ASG_AWS_SSM_PARAMETER_NAME, asg_scaling_data)
  /\ pc' = "done"
  /\ UNCHANGED << live, action, args, locals, start, prev, probe, writers >>

(***************************** scale_up *************************************)
\* Lines 155-189: the three parts of scale_up in the order of the statements: the
\* groups (155-163), the workloads (165-181), the CronJobs (183-189).
ScaleUpPhasesWorkloadsFirst == << "su_k8s_get", "su_asg_get", "su_cron_list" >>
ScaleUpPhases == << "su_asg_get", "su_k8s_get", "su_cron_list" >>
\* Where scale_up goes on after a part, "done" after the last.
SuAfter(phase) ==
  LET n == CHOOSE m \in 1..Len(ScaleUpPhases) : ScaleUpPhases[m] = phase
  IN IF n < Len(ScaleUpPhases) THEN ScaleUpPhases[n + 1] ELSE "done"

\* main: the dispatch to scale_up, which takes no argument.
StartScaleUp ==
  /\ pc = "idle"
  /\ prev.kind \in {"none", "round-trip", "replay"}
  /\ action' = "scale-up"
  /\ args' = NoArgs
  /\ pc' = ScaleUpPhases[1]
  /\ calls' = << >>
  /\ start' = Snapshot
  /\ UNCHANGED << live, ssm, locals, prev, probe, writers >>

\* Lines 156-158 with 162-163, and 166-168 with 180-181: get_parameter inside a
\* try whose except ParameterNotFound only prints, so the run goes on after it.
AfterGetUncaught(parameter_name, found, skipped) ==
  IF ssm[parameter_name].exists THEN found ELSE "failed"
AfterGet(parameter_name, found, skipped) ==
  IF ssm[parameter_name].exists THEN found ELSE skipped

SuAsgGet ==
  /\ pc = "su_asg_get"
  /\ asg_scaling_data' = ssm[ASG_AWS_SSM_PARAMETER_NAME].value
  /\ pc' = AfterGet(ASG_AWS_SSM_PARAMETER_NAME,
                    IF asg_scaling_data' # << >> THEN "su_asgs" ELSE SuAfter("su_asg_get"),
                    SuAfter("su_asg_get"))
  /\ i' = 1
  /\ UNCHANGED << live, ssm, action, args, all_deployments, all_statefulsets, all_cronjobs,
                  k8s_scaling_data, aws_asg_resources, existing_data, cronjobs, calls,
                  start, prev, probe, writers >>

\* Line 161: the sizes written back, whatever the live sizes are.
RestoredTripleWithinLive(live_triple, config) ==
  IF live_triple.MaxSize > 0 THEN live_triple
  ELSE Triple(config.MinSize, config.DesiredCapacity, config.MaxSize)
RestoredTriple(live_triple, config) ==
  Triple(config.MinSize, config.DesiredCapacity, config.MaxSize)
\* Lines 159-161: update each recorded group to its stored triple; updating a group
\* that does not exist raises.
SuAsgs ==
  /\ pc = "su_asgs"
  /\ LET asg_name == asg_scaling_data[i][1]
         config == asg_scaling_data[i][2]
     IN IF asg_name \notin AsgNames
        THEN /\ pc' = "failed"
             /\ UNCHANGED << i, asg, calls >>
        ELSE /\ asg' = [asg EXCEPT ![asg_name] = RestoredTriple(asg[asg_name], config)]
             /\ calls' = Append(calls, Call("update_auto_scaling_group", AsgId(asg_name)))
             /\ IF i < Len(asg_scaling_data)
                THEN /\ i' = i + 1
                     /\ pc' = pc
                ELSE /\ i' = 1
                     /\ pc' = SuAfter("su_asg_get")
  /\ UNCHANGED << replicas, suspend, ssm, action, args, all_deployments, all_statefulsets,
                  all_cronjobs, k8s_scaling_data, aws_asg_resources, asg_scaling_data,
                  existing_data, cronjobs, start, prev, probe, writers >>

SuK8sGet ==
  /\ pc = "su_k8s_get"
  /\ k8s_scaling_data' = ssm[K8S_AWS_SSM_PARAMETER_NAME].value
  /\ pc' = AfterGet(K8S_AWS_SSM_PARAMETER_NAME,
                    IF k8s_scaling_data' # << >> THEN "su_k8s" ELSE SuAfter("su_k8s_get"),
                    SuAfter("su_k8s_get"))
  /\ i' = 1
  /\ UNCHANGED << live, ssm, action, args, all_deployments, all_statefulsets, all_cronjobs,
                  aws_asg_resources, asg_scaling_data, existing_data, cronjobs, calls,
                  start, prev, probe, writers >>

\* Lines 174 and 178: the count written back, whatever the live count is.
RestoredCountUnlessScaled(live_count, stored) == IF live_count > 0 THEN live_count ELSE stored
RestoredCount(live_count, stored) == stored

\* Lines 169-179: kind, namespace, name = key.split("/") raises ValueError unless
\* there are exactly three parts; a read of an object that does not exist raises;
\* a kind other than deployment and statefulset is passed over.
RestoreWorkload(key, stored) ==
  LET parts == Split(key)
      GoOn == IF i < Len(k8s_scaling_data)
              THEN /\ i' = i + 1
                   /\ pc' = pc
              ELSE /\ i' = 1
                   /\ pc' = SuAfter("su_k8s_get")
  IN
  IF Len(parts) # 3
  THEN /\ pc' = "failed"
       /\ UNCHANGED << i, replicas, calls >>
  ELSE LET kind == parts[1]
           namespace == parts[2]
           name == parts[3]
           IsObject(id) ==
             /\ << id.kind >> = kind
             /\ << id.namespace >> = namespace
             /\ << id.name >> = name
           found == {id \in ScalableIds : IsObject(id)}
       IN IF kind \in {<< "deployment" >>, << "statefulset" >>}
          THEN IF found = {}
               THEN /\ pc' = "failed"
                    /\ UNCHANGED << i, replicas, calls >>
               ELSE /\ replicas' = [id \in ScalableIds |->
                                      IF id \in found
                                      THEN RestoredCount(replicas[id], stored)
                                      ELSE replicas[id]]
                    /\ calls' = Append(calls,
                         Call(IF kind = << "deployment" >> THEN "patch_namespaced_deployment"
                              ELSE "patch_namespaced_stateful_set",
                              CHOOSE id \in found : TRUE))
                    /\ GoOn
          ELSE /\ GoOn
               /\ UNCHANGED << replicas, calls >>

SuK8s ==
  /\ pc = "su_k8s"
  /\ RestoreWorkload(k8s_scaling_data[i][1], k8s_scaling_data[i][2])
  /\ UNCHANGED << suspend, asg, ssm, action, args, all_deployments, all_statefulsets,
                  all_cronjobs, k8s_scaling_data, aws_asg_resources, asg_scaling_data,
                  existing_data, cronjobs, start, prev, probe, writers >>

\* Line 185: the CronJobs of all namespaces, whatever the store holds.
CronJobsToResumeSuspendedByRun ==
  LET Recorded(c) == ssm[K8S_AWS_SSM_PARAMETER_NAME].exists IN SelectSeq(ListCronJobs, Recorded)
CronJobsToResume == ListCronJobs

SuCronList ==
  /\ pc = "su_cron_list"
  /\ cronjobs' = CronJobsToResume
  /\ i' = 1
  /\ pc' = IF cronjobs' # << >> THEN "su_cronjobs" ELSE SuAfter("su_cron_list")
  /\ UNCHANGED << live, ssm, action, args, all_deployments, all_statefulsets, all_cronjobs,
                  k8s_scaling_data, aws_asg_resources, asg_scaling_data, existing_data,
                  calls, start, prev, probe, writers >>

\* Lines 186-189: resume each listed CronJob.
SuCronJobs ==
  /\ pc = "su_cronjobs"
  /\ LET id == Id("cronjob", cronjobs[i].namespace, cronjobs[i].name)
     IN /\ suspend' = [suspend EXCEPT ![id] = FALSE]
        /\ calls' = Append(calls, Call("patch_namespaced_cron_job", id))
  /\ IF i < Len(cronjobs)
     THEN /\ i' = i + 1
          /\ pc' = pc
     ELSE /\ i' = 1
          /\ pc' = SuAfter("su_cron_list")
  /\ UNCHANGED << replicas, asg, ssm, action, args, all_deployments, all_statefulsets,
                  all_cronjobs, k8s_scaling_data, aws_asg_resources, asg_scaling_data,
                  existing_data, cronjobs, start, prev, probe, writers >>

(***************************** the environment ******************************)
Running == pc \notin {"idle", "done", "failed"}

\* The process is gone: the next invocation starts with fresh locals.
ProcessExits ==
  /\ pc' = "idle"
  /\ action' = "none"
  /\ args' = NoArgs
  /\ i' = 1
  /\ all_deployments' = << >>
  /\ all_statefulsets' = << >>
  /\ all_cronjobs' = << >>
  /\ k8s_scaling_data' = << >>
  /\ aws_asg_resources' = << >>
  /\ asg_scaling_data' = << >>
  /\ existing_data' = << >>
  /\ cronjobs' = << >>
  /\ calls' = << >>
  /\ start' = Snapshot
  /\ UNCHANGED << live, ssm, probe, writers >>

\* A collaborator raises, or the process is killed, between two calls: nothing
\* catches it (only ParameterNotFound is caught) and the run stops where it is.
Crash ==
  /\ Running
  /\ ProcessExits
  /\ prev' = NoPrev

\* The workloads a scale-down selected: its working set after the filter.
Selected ==
  IdsOf("deployment", all_deployments) \cup IdsOf("statefulset", all_statefulsets)

\* main returns (line 208 after a completed run) or the exception ends the process.
Exit ==
  /\ pc \in {"done", "failed"}
  /\ ProcessExits
  /\ \/ prev' = NoPrev
     \/ /\ pc = "done" /\ action = "scale-down"
        /\ prev' = [NoPrev EXCEPT !.kind = "round-trip", !.selected = Selected,
                                  !.replicas = start.replicas, !.ssm = start.ssm,
                                  !.suspend = start.suspend]
     \/ /\ pc = "done" /\ action = "scale-down"
        /\ prev' = [NoPrev EXCEPT !.kind = "repeat", !.args = args]
     \/ /\ pc = "done" /\ action = "scale-up"
        /\ prev' = [NoPrev EXCEPT !.kind = "replay"]

\* Between two scale-ups another actor scales one workload or resizes one group.
OtherActor ==
  /\ pc = "idle"
  /\ prev.kind = "replay"
  /\ ~prev.changed
  /\ \/ \E id \in ScalableIds, n \in 0..MaxReplicas :
          /\ n # replicas[id]
          /\ replicas' = [replicas EXCEPT ![id] = n]
          /\ UNCHANGED asg
     \/ \E name \in AsgNames, t \in LiveTriples :
          /\ t # asg[name]
          /\ asg' = [asg EXCEPT ![name] = t]
          /\ UNCHANGED replicas
  /\ prev' = [prev EXCEPT !.changed = TRUE]
  /\ start' = [start EXCEPT !.replicas = replicas', !.asg = asg']
  /\ UNCHANGED << suspend, ssm, pc, action, args, locals, calls, probe, writers >>

\* A key that does not split into kind/namespace/name: the program never writes
\* one, it is in the replica blob when the parameter was first made by hand.
MalformedKey == << "deployment", "/", "web" >>
EditParameter ==
  /\ pc = "idle"
  /\ prev.kind = "none"
  /\ ~ssm[K8S_AWS_SSM_PARAMETER_NAME].exists
  /\ ssm' = [ssm EXCEPT ![K8S_AWS_SSM_PARAMETER_NAME] = Parameter(<< << MalformedKey, 1 >> >>)]
  /\ start' = [start EXCEPT !.ssm = ssm']
  /\ UNCHANGED << live, pc, action, args, locals, calls, prev, probe, writers >>

Next ==
  \/ StartScaleDown \/ SdFetch \/ SdDeployments \/ SdStatefulSets \/ SdCronJobs
  \/ SdK8sGet \/ SdK8sPut \/ SdAsgFetch \/ SdAsgs \/ SdAsgGet \/ SdAsgPut
  \/ StartScaleUp \/ SuAsgGet \/ SuAsgs \/ SuK8sGet \/ SuK8s \/ SuCronList \/ SuCronJobs
  \/ Crash \/ Exit \/ OtherActor \/ EditParameter

Spec == Init /\ [][Next]_vars

(***************************** the filters on their own *********************)
\* The metadata of the objects a filter may be given, the exclusion entries and
\* the group names: longer lists than the runs give, in any order.
ProbeObjects == { [namespace |-> "default", name |-> "web"],
                  [namespace |-> "prod", name |-> "web"],
                  [namespace |-> "default", name |-> "job"] }
ProbeExclRefs == { Ref("default", "DEPLOYMENT", "web"),
                   Ref("prod", "deployment", "web"),
                   Ref("default", "statefulset", "web"),
                   Ref("default", "CronJob", "job") }
ProbeAsgs == { "ng-a", "ng-b", "ng-x" }
ProbeLists(S) == {<< >>} \cup SeqsUpTo(S, MaxProbe)

ProbeInputs ==
  { [NoProbe EXCEPT !.fn = "k8s", !.kind = k, !.resources = r, !.exclude_list = e] :
      k \in {"Deployment", "StatefulSet", "CronJob"},
      r \in ProbeLists(ProbeObjects),
      e \in OptionalLists(ProbeExclRefs, MaxProbe) }
  \cup
  { [NoProbe EXCEPT !.fn = "asg", !.resources = r, !.exclude_list = e] :
      r \in ProbeLists(ProbeAsgs),
      e \in OptionalLists(ProbeAsgs, MaxProbe) }

InitFilter ==
  /\ replicas = [id \in ScalableIds |-> 0]
  /\ suspend = [id \in CronJobIds |-> FALSE]
  /\ asg = [name \in AsgNames |-> ZeroTriple]
  /\ ssm = [p \in ParameterNames |-> NotFound]
  /\ InitRun
  /\ start = [replicas |-> replicas, suspend |-> suspend, asg |-> asg, ssm |-> ssm]
  /\ probe \in ProbeInputs
  /\ writers = NoWriters

ApplyK8sFilter ==
  /\ probe.fn = "k8s"
  /\ ~probe.applied
  /\ probe' = [probe EXCEPT
       !.result = filter_excluded_k8s_resources(probe.kind, probe.resources, probe.exclude_list),
       !.applied = TRUE]
  /\ UNCHANGED << live, ssm, pc, action, args, locals, calls, start, prev, writers >>

ApplyAsgFilter ==
  /\ probe.fn = "asg"
  /\ ~probe.applied
  /\ probe' = [probe EXCEPT
       !.result = filter_excluded_asgs(probe.resources, probe.exclude_list),
       !.applied = TRUE]
  /\ UNCHANGED << live, ssm, pc, action, args, locals, calls, start, prev, writers >>

NextFilter == ApplyK8sFilter \/ ApplyAsgFilter

FilterSpec == InitFilter /\ [][NextFilter]_vars

(***************************** two scale-downs at once **********************)
\* Two operators run scale_down at the same time.  Each has patched its workloads
\* and is at line 123 with a non-empty accumulator: update_ssm_parameter is a
\* get_parameter (line 63) and later a put_parameter (line 70), two calls between
\* which the other run may make its own.
WorkloadOrder ==
  [n \in 1..Len(ClusterDeployments) |->
     Id("deployment", ClusterDeployments[n].namespace, ClusterDeployments[n].name)]
  \o [n \in 1..Len(ClusterStatefulSets) |->
     Id("statefulset", ClusterStatefulSets[n].namespace, ClusterStatefulSets[n].name)]
\* The accumulator of a run that found the workloads at these counts.
AccumulatorFor(counts) ==
  LET found == [n \in 1..Len(WorkloadOrder) |->
                  << FormatKey(WorkloadOrder[n].kind, WorkloadOrder[n].namespace,
                               WorkloadOrder[n].name),
                     counts[WorkloadOrder[n]] >>]
      Captured(entry) == ReplicasAboveZero(entry[2])
  IN SelectSeq(found, Captured)
Accumulators ==
  {AccumulatorFor(counts) : counts \in [ScalableIds -> 0..MaxReplicas]} \ {<< >>}
StoredBefore ==
  {NotFound} \cup {Parameter(acc) : acc \in Accumulators}

InitConcurrent ==
  /\ replicas = [id \in ScalableIds |-> 0]
  /\ suspend = [id \in CronJobIds |-> TRUE]
  /\ asg = [name \in AsgNames |-> ZeroTriple]
  /\ \E before \in StoredBefore :
       ssm = [p \in ParameterNames |->
                IF p = K8S_AWS_SSM_PARAMETER_NAME THEN before ELSE NotFound]
  /\ InitRun
  /\ start = [replicas |-> replicas, suspend |-> suspend, asg |-> asg, ssm |-> ssm]
  /\ probe = NoProbe
  /\ writers \in [Operators -> {[pc |-> "get", new_data |-> acc, existing_data |-> << >>] :
                                 acc \in Accumulators}]

\* Lines 62-67 in the run of operator w.
WriterGet(w) ==
  /\ writers[w].pc = "get"
  /\ writers' = [writers EXCEPT
       ![w].existing_data = IF ssm[K8S_AWS_SSM_PARAMETER_NAME].exists
                            THEN ssm[K8S_AWS_SSM_PARAMETER_NAME].value ELSE << >>,
       ![w].pc = "put"]
  /\ UNCHANGED << live, ssm, pc, action, args, locals, calls, start, prev, probe >>

\* Lines 69-70 in the run of operator w.
WriterPut(w) ==
  /\ writers[w].pc = "put"
  /\ ssm' = [ssm EXCEPT ![K8S_AWS_SSM_PARAMETER_NAME] =
               Parameter(Merged(writers[w].existing_data, writers[w].new_data))]
  /\ calls' = Append(calls, Call("put_parameter", w))
  /\ writers' = [writers EXCEPT ![w].pc = "returned"]
  /\ UNCHANGED << live, pc, action, args, locals, start, prev, probe >>

NextConcurrent == \E w \in Operators : WriterGet(w) \/ WriterPut(w)

ConcurrentSpec == InitConcurrent /\ [][NextConcurrent]_vars

(***************************** properties ***********************************)
K8sStore(store) == store[K8S_AWS_SSM_PARAMETER_NAME].value
AsgStore(store) == store[ASG_AWS_SSM_PARAMETER_NAME].value
WorkloadKey(id) == << id.kind, "/", id.namespace, "/", id.name >>
\* The count a replica blob records for a workload, 0 when it records none.
RecordedCount(blob, id) ==
  IF DictHas(blob, WorkloadKey(id)) THEN DictGet(blob, WorkloadKey(id)) ELSE 0
PatchOf(id) ==
  Call(IF id.kind = "deployment" THEN "patch_namespaced_deployment"
       ELSE "patch_namespaced_stateful_set", id)
UpdateOf(name) == Call("update_auto_scaling_group", AsgId(name))
PutOf(parameter_name) == Call("put_parameter", Id("ssm", "", parameter_name))
Called(c) == c \in Range(calls)
ScaleDownDone == pc = "done" /\ action = "scale-down"
ScaleUpDone == pc = "done" /\ action = "scale-up"

\* C1 as stated: a completed scale-down of the workloads W followed by a completed
\* scale-up leaves every workload of W with the count it had before the
\* scale-down, a count of zero included.
C1_RoundTripExact ==
  (ScaleUpDone /\ prev.kind = "round-trip") =>
    \A id \in prev.selected : replicas[id] = prev.replicas[id]

\* C1 as amended: a completed scale-down of the workloads W followed by a completed
\* scale-up leaves every workload of W whose count was above zero with exactly
\* that count, and every workload of W whose count was zero with the count the
\* store already recorded for it before the scale-down (zero when it recorded none).
C1_RoundTrip ==
  (ScaleUpDone /\ prev.kind = "round-trip") =>
    \A id \in prev.selected :
      replicas[id] = IF prev.replicas[id] > 0 THEN prev.replicas[id]
                     ELSE RecordedCount(K8sStore(prev.ssm), id)

\* A round trip of two workloads, one at two replicas, one at zero with a record
\* of an earlier scale-down.
C1_Witness ==
  /\ ScaleUpDone
  /\ prev.kind = "round-trip"
  /\ \E a, b \in prev.selected :
       /\ prev.replicas[a] = 2 /\ replicas[a] = 2
       /\ prev.replicas[b] = 0 /\ DictHas(K8sStore(prev.ssm), WorkloadKey(b))

\* C2: wherever a scale-down run stops between two calls, every workload and
\* every group it has already forced to zero has its capacity from before the
\* run recorded in the store.
C2_ZeroedIsRecorded ==
  action = "scale-down" =>
    /\ \A id \in ScalableIds :
         Called(PatchOf(id)) => RecordedCount(K8sStore(ssm), id) = start.replicas[id]
    /\ \A name \in AsgNames :
         Called(UpdateOf(name)) =>
           /\ DictHas(AsgStore(ssm), name)
           /\ DictGet(AsgStore(ssm), name) = start.asg[name]

\* C3: a scale-down that follows a completed scale-down with the same arguments
\* patches no workload, updates no group and writes no parameter, and when it is
\* done the replica counts, the suspend flags, the group sizes and both stored
\* blobs are what the first run left.
C3_ScaleDownIdempotent ==
  (action = "scale-down" /\ prev.kind = "repeat") =>
    /\ \A id \in ScalableIds : ~Called(PatchOf(id))
    /\ \A name \in AsgNames : ~Called(UpdateOf(name))
    /\ \A p \in ParameterNames : ~Called(PutOf(p))
    /\ ssm = start.ssm
    /\ pc = "done" =>
         /\ args = prev.args
         /\ replicas = start.replicas
         /\ suspend = start.suspend
         /\ asg = start.asg

\* A repeated scale-down is done, having selected workloads, CronJobs and groups
\* that the first run captured.
C3_Witness ==
  /\ ScaleDownDone
  /\ prev.kind = "repeat"
  /\ all_deployments # << >> /\ all_statefulsets # << >> /\ all_cronjobs # << >>
  /\ aws_asg_resources # << >>
  /\ \A id \in ScalableIds : DictHas(K8sStore(ssm), WorkloadKey(id))
  /\ DictHas(AsgStore(ssm), "ng-a")

\* What update_ssm_parameter leaves of a blob: every key it had that the run did
\* not capture, with its value; every captured key, with the captured value;
\* nothing else.  A parameter that did not exist counts as the empty blob.
IsMergeOf(now, old, captured) ==
  /\ DictKeys(now) = DictKeys(old) \cup DictKeys(captured)
  /\ \A k \in DictKeys(old) \ DictKeys(captured) : DictGet(now, k) = DictGet(old, k)
  /\ \A k \in DictKeys(captured) : DictGet(now, k) = DictGet(captured, k)
  /\ Len(now) = Cardinality(DictKeys(now))

\* C4: in a scale-down run a stored blob is as the run found it until the run
\* writes it, and from then on it is the merge of what the run found with what
\* the run captured: no key that was stored before is lost or changed unless the
\* run captured it.
C4_MergeNotOverwrite ==
  action = "scale-down" =>
    /\ IF Called(PutOf(K8S_AWS_SSM_PARAMETER_NAME))
       THEN /\ ssm[K8S_AWS_SSM_PARAMETER_NAME].exists
            /\ IsMergeOf(K8sStore(ssm), K8sStore(start.ssm), k8s_scaling_data)
       ELSE ssm[K8S_AWS_SSM_PARAMETER_NAME] = start.ssm[K8S_AWS_SSM_PARAMETER_NAME]
    /\ IF Called(PutOf(ASG_AWS_SSM_PARAMETER_NAME))
       THEN /\ ssm[ASG_AWS_SSM_PARAMETER_NAME].exists
            /\ IsMergeOf(AsgStore(ssm), AsgStore(start.ssm), asg_scaling_data)
       ELSE ssm[ASG_AWS_SSM_PARAMETER_NAME] = start.ssm[ASG_AWS_SSM_PARAMETER_NAME]

\* A run has written the replica blob, which held the record of a workload the
\* run did not capture, and the run captured another workload.
C4_Witness ==
  /\ action = "scale-down"
  /\ Called(PutOf(K8S_AWS_SSM_PARAMETER_NAME))
  /\ \E a, b \in ScalableIds :
       /\ DictHas(K8sStore(start.ssm), WorkloadKey(a))
       /\ ~DictHas(k8s_scaling_data, WorkloadKey(a))
       /\ DictHas(k8s_scaling_data, WorkloadKey(b))
       /\ ~DictHas(K8sStore(start.ssm), WorkloadKey(b))

\* C5: a scale-up that finds a key that does not split into three parts passes
\* it over: the run does not fail, and when it is done every other recorded
\* workload has its stored count and no CronJob is suspended.
WellFormed(key) == Len(Split(key)) = 3
C5_MalformedKeySkipped ==
  (action = "scale-up" /\ \E k \in DictKeys(K8sStore(start.ssm)) : ~WellFormed(k)) =>
    /\ pc # "failed"
    /\ pc = "done" =>
         /\ \A id \in ScalableIds :
              DictHas(K8sStore(ssm), WorkloadKey(id)) =>
                replicas[id] = RecordedCount(K8sStore(ssm), id)
         /\ \A id \in CronJobIds : ~suspend[id]

ResumeOf(id) == Call("patch_namespaced_cron_job", id)
NoParameterAtStart == \A p \in ParameterNames : ~start.ssm[p].exists
\* Every record of a blob is what the live resource now has.
WorkloadsAsStored(blob) ==
  \A id \in ScalableIds :
    DictHas(blob, WorkloadKey(id)) => replicas[id] = DictGet(blob, WorkloadKey(id))
GroupsAsStored(blob) ==
  \A name \in AsgNames : DictHas(blob, name) => asg[name] = DictGet(blob, name)

C7_NotFoundTolerance ==
  action = "scale-up" =>
    /\ NoParameterAtStart =>
         /\ pc # "failed"
         /\ ssm = start.ssm
         /\ replicas = start.replicas
         /\ asg = start.asg
         /\ \A c \in Range(calls) : c[1] = "patch_namespaced_cron_job"
         /\ pc = "done" => \A id \in CronJobIds : ~suspend[id]
    /\ ~start.ssm[K8S_AWS_SSM_PARAMETER_NAME].exists =>
         /\ pc # "failed"
         /\ pc = "done" => GroupsAsStored(AsgStore(start.ssm))
    /\ ~start.ssm[ASG_AWS_SSM_PARAMETER_NAME].exists =>
         /\ pc = "failed" => \E k \in DictKeys(K8sStore(start.ssm)) : ~WellFormed(k)
         /\ pc = "done" => WorkloadsAsStored(K8sStore(start.ssm))

\* A scale-up that found neither parameter is done, having resumed a CronJob
\* next to workloads that are scaled to zero.
C7_Witness ==
  /\ ScaleUpDone
  /\ NoParameterAtStart
  /\ calls # << >>
  /\ \E id \in ScalableIds : replicas[id] = 0

\* The spellings of one kind, which lower() makes equal.
KindSpellings ==
  { {"Deployment", "DEPLOYMENT", "deployment"},
    {"StatefulSet", "STATEFULSET", "statefulset"},
    {"CronJob", "CRONJOB", "cronjob"} }
SameKindIgnoringCase(a, b) == a = b \/ \E spellings \in KindSpellings : {a, b} \subseteq spellings
\* result is input without the positions in dropped, in the order of input.
IsInputWithout(result, input, dropped) ==
  LET kept == (1..Len(input)) \ dropped
  IN /\ Len(result) = Cardinality(kept)
     /\ \A n \in kept :
          result[Cardinality({m \in kept : m <= n})] = input[n]
\* C8: filter_excluded_k8s_resources returns its input without the items that
\* some exclusion entry names by the same namespace, the same name and the kind
\* in any letter case, in the order of the input; filter_excluded_asgs returns
\* its input without the names of the exclusion list, in the order of the
\* input; with no exclusion list, or an empty one, each returns its input.
C8_ExclusionCorrectness ==
  probe.applied =>
    LET entries == probe.exclude_list.items
        Excluded(n) ==
          IF probe.fn = "k8s"
          THEN \E m \in 1..Len(entries) :
                 /\ entries[m].namespace = probe.resources[n].namespace
                 /\ entries[m].name = probe.resources[n].name
                 /\ SameKindIgnoringCase(entries[m].kind, probe.kind)
          ELSE \E m \in 1..Len(entries) : entries[m] = probe.resources[n]
    IN /\ IsInputWithout(probe.result, probe.resources,
                         {n \in 1..Len(probe.resources) : Excluded(n)})
       /\ (~probe.exclude_list.present \/ entries = << >>) => probe.result = probe.resources

\* The filter was given two objects and dropped the first, which an entry names
\* with its kind in another letter case.
C8_Witness ==
  /\ probe.applied
  /\ probe.fn = "k8s"
  /\ Len(probe.resources) = 2
  /\ probe.result = << probe.resources[2] >>
  /\ probe.resources[1] # probe.resources[2]
  /\ \A m \in 1..Len(probe.exclude_list.items) : probe.exclude_list.items[m].kind # probe.kind

\* C9: in a scale-down run a Deployment or StatefulSet that had no replica when
\* the run began is never in the accumulator and never patched, and a group whose
\* three sizes were zero is never in the group accumulator and never updated.
C9_ZeroSkip ==
  action = "scale-down" =>
    /\ \A id \in ScalableIds :
         start.replicas[id] = 0 =>
           /\ ~DictHas(k8s_scaling_data, WorkloadKey(id))
           /\ ~Called(PatchOf(id))
    /\ \A name \in AsgNames :
         start.asg[name] = ZeroTriple =>
           /\ ~DictHas(asg_scaling_data, name)
           /\ ~Called(UpdateOf(name))

\* A scale-down is done that selected a workload without replicas and a group
\* of size zero, and captured another workload.
C9_Witness ==
  /\ ScaleDownDone
  /\ \E a, b \in Selected :
       /\ start.replicas[a] = 0
       /\ start.replicas[b] > 0 /\ Called(PatchOf(b))
  /\ \E n \in 1..Len(aws_asg_resources) :
       /\ aws_asg_resources[n] \in AsgNames
       /\ start.asg[aws_asg_resources[n]] = ZeroTriple

\* C10: a scale-up run, wherever it is and however it ends, has left both
\* parameters as it found them, and when it is done every recorded workload and
\* every recorded group has its stored value, whatever it had when the run
\* began: a second scale-up undoes what another actor changed in between.
C10_ScaleUpKeepsStore ==
  action = "scale-up" =>
    /\ ssm = start.ssm
    /\ pc = "done" =>
         /\ WorkloadsAsStored(K8sStore(start.ssm))
         /\ GroupsAsStored(AsgStore(start.ssm))

\* The second of two scale-ups is done, and a recorded workload that another
\* actor had scaled in between has its stored count again.
C10_Witness ==
  /\ ScaleUpDone
  /\ prev.kind = "replay"
  /\ prev.changed
  /\ \E id \in ScalableIds :
       /\ DictHas(K8sStore(ssm), WorkloadKey(id))
       /\ start.replicas[id] # replicas[id]

\* What the arguments of the run say of a workload, a CronJob or a group.
RefNames(res, id) ==
  /\ res.namespace = id.namespace
  /\ res.name = id.name
  /\ SameKindIgnoringCase(res.kind, id.kind)
ExcludedByArgs(id) ==
  \E n \in 1..Len(args.exclude_k8s_resources.items) :
    RefNames(args.exclude_k8s_resources.items[n], id)
GroupExcludedByArgs(name) ==
  \E n \in 1..Len(args.exclude_aws_asg_resources.items) :
    args.exclude_aws_asg_resources.items[n] = name
\* The inclusion list names a Deployment, StatefulSet or CronJob that does not exist.
NamesMissingObject ==
  \E n \in 1..Len(args.k8s_resources.items) :
    LET res == args.k8s_resources.items[n]
    IN /\ \E kind \in {"deployment", "statefulset", "cronjob"} :
            SameKindIgnoringCase(res.kind, kind)
       /\ ~\E id \in ScalableIds \cup CronJobIds : RefNames(res, id)
MissingGroupsNamed ==
  {args.aws_asg_resources.items[n] : n \in 1..Len(args.aws_asg_resources.items)} \ AsgNames

\* C11: a scale-down whose inclusion list names a workload or a group
\* that does not exist never completes.
C11_MissingReferenceNeverDone ==
  (action = "scale-down" /\ (NamesMissingObject \/ MissingGroupsNamed # {})) =>
    pc # "done"

\* What does hold of a missing reference: a scale-down whose inclusion list names
\* a workload that does not exist stops at the fetch and fails, and one whose
\* group inclusion list names a group that does not exist and that the exclusion
\* list does not name never completes; a missing group that is also excluded is
\* dropped by the filter (line 132) before it is looked up (line 137).
MissingReferenceUnlessExcluded ==
  action = "scale-down" =>
    /\ NamesMissingObject => pc \in {"sd_fetch", "failed"}
    /\ (\E name \in MissingGroupsNamed : ~GroupExcludedByArgs(name)) => pc # "done"

\* A scale-down has failed on a missing group after it patched a workload.
MissingGroupFailed ==
  /\ action = "scale-down"
  /\ pc = "failed"
  /\ MissingGroupsNamed # {}
  /\ ~NamesMissingObject
  /\ \E id \in ScalableIds : Called(PatchOf(id))

\* C12: after a completed scale-down followed by a completed scale-up every
\* CronJob has the suspend flag it had before the scale-down.
C12_SuspendFlagRecovered ==
  (ScaleUpDone /\ prev.kind = "round-trip") =>
    \A id \in CronJobIds : suspend[id] = prev.suspend[id]

\* C13: when the update_ssm_parameter calls of two scale-down runs have both
\* returned, however their gets and puts interleaved, a key that only one run
\* captured is in the blob with that run's value, and a key that both captured
\* has the value of the run that put last.
C13_LastMergeWinsPerKey ==
  (\A w \in Operators : writers[w].pc = "returned" /\ writers[w].new_data # << >>) =>
    LET final == K8sStore(ssm)
        last == calls[Len(calls)][2]
        CapturedBy(k) == {w \in Operators : DictHas(writers[w].new_data, k)}
    IN \A k \in UNION {DictKeys(writers[w].new_data) : w \in Operators} :
         /\ DictHas(final, k)
         /\ DictGet(final, k) =
              DictGet(writers[IF last \in CapturedBy(k) THEN last
                              ELSE CHOOSE w \in CapturedBy(k) : TRUE].new_data, k)

\* C14: when a scale-up is done every group with a record in the group blob has
\* exactly the stored MinSize, DesiredCapacity and MaxSize, whatever it had
\* when the run began, and at any point of the run a group without a record has
\* what it had when the run began.
C14_ExactFleetRestore ==
  action = "scale-up" =>
    \A name \in AsgNames :
      IF DictHas(AsgStore(start.ssm), name)
      THEN pc = "done" =>
             /\ asg[name].MinSize = DictGet(AsgStore(start.ssm), name).MinSize
             /\ asg[name].DesiredCapacity = DictGet(AsgStore(start.ssm), name).DesiredCapacity
             /\ asg[name].MaxSize = DictGet(AsgStore(start.ssm), name).MaxSize
      ELSE asg[name] = start.asg[name]

\* A scale-up is done that found a recorded group resized by another actor, at
\* sizes that were neither the stored ones nor zero.
C14_Witness ==
  /\ ScaleUpDone
  /\ \E name \in AsgNames :
       /\ DictHas(AsgStore(start.ssm), name)
       /\ start.asg[name] \notin {ZeroTriple, DictGet(AsgStore(start.ssm), name)}
       /\ asg[name] = DictGet(AsgStore(start.ssm), name)

\* A non-empty inclusion list is given and names no such object, no such group.
OutsideInclusionList(id) ==
  /\ args.k8s_resources.items # << >>
  /\ \A n \in 1..Len(args.k8s_resources.items) : ~RefNames(args.k8s_resources.items[n], id)
GroupOutsideInclusionList(name) ==
  /\ args.aws_asg_resources.items # << >>
  /\ \A n \in 1..Len(args.aws_asg_resources.items) : args.aws_asg_resources.items[n] # name
SameRecord(now, before, k) ==
  /\ DictHas(now, k) <=> DictHas(before, k)
  /\ DictHas(now, k) => DictGet(now, k) = DictGet(before, k)

\* C15: at any point of a scale-down run, a workload, a CronJob or a group that
\* the exclusion list names (whether or not the inclusion list names it too), or
\* that a non-empty inclusion list does not name, has not been patched or
\* updated, has the replica count, suspend flag or sizes it had when the run
\* began, and has in the store the record it had, or none if it had none.
C15_ExcludedUntouched ==
  action = "scale-down" =>
    /\ \A id \in ScalableIds :
         (ExcludedByArgs(id) \/ OutsideInclusionList(id)) =>
           /\ ~Called(PatchOf(id))
           /\ replicas[id] = start.replicas[id]
           /\ SameRecord(K8sStore(ssm), K8sStore(start.ssm), WorkloadKey(id))
    /\ \A id \in CronJobIds :
         (ExcludedByArgs(id) \/ OutsideInclusionList(id)) =>
           /\ ~Called(ResumeOf(id))
           /\ suspend[id] = start.suspend[id]
           /\ SameRecord(K8sStore(ssm), K8sStore(start.ssm), WorkloadKey(id))
    /\ \A name \in AsgNames :
         (GroupExcludedByArgs(name) \/ GroupOutsideInclusionList(name)) =>
           /\ ~Called(UpdateOf(name))
           /\ asg[name] = start.asg[name]
           /\ SameRecord(AsgStore(ssm), AsgStore(start.ssm), name)

\* A scale-down is done whose exclusion list named a running Deployment that
\* its inclusion list named too, whose inclusion list left out a CronJob that
\* was not suspended, and whose group exclusion list named a group in service.
C15_Witness ==
  /\ ScaleDownDone
  /\ \E id \in ScalableIds :
       /\ ExcludedByArgs(id) /\ ~OutsideInclusionList(id) /\ args.k8s_resources.items # << >>
       /\ replicas[id] > 0
  /\ \E id \in CronJobIds : OutsideInclusionList(id) /\ ~suspend[id]
  /\ \E name \in AsgNames : GroupExcludedByArgs(name) /\ asg[name] # ZeroTriple

\* C16: whatever runs there have been since the store was empty, every record
\* of the replica blob that a run wrote (every one but the key made by hand) has
\* a key of three parts, the first of them deployment or statefulset in lower
\* case, and a count above zero, and no record of the group blob has its three
\* sizes at zero.
C16_StoredRecords ==
  /\ \A n \in 1..Len(K8sStore(ssm)) :
       LET key == K8sStore(ssm)[n][1]
           count == K8sStore(ssm)[n][2]
       IN key # MalformedKey =>
            /\ Len(Split(key)) = 3
            /\ Split(key)[1] \in {<< "deployment" >>, << "statefulset" >>}
            /\ Len(Split(key)[2]) = 1 /\ Len(Split(key)[3]) = 1
            /\ count \in Nat \ {0}
  /\ \A n \in 1..Len(AsgStore(ssm)) :
       LET config == AsgStore(ssm)[n][2]
       IN ~(config.MinSize = 0 /\ config.DesiredCapacity = 0 /\ config.MaxSize = 0)

\* After a scale-down of everything and a scale-up, both blobs hold records: the
\* two workloads, one of them at two replicas, and a group.
C16_Witness ==
  /\ ScaleUpDone
  /\ Len(K8sStore(ssm)) = 2
  /\ MalformedKey \notin DictKeys(K8sStore(ssm))
  /\ \E n \in 1..Len(K8sStore(ssm)) : K8sStore(ssm)[n][2] = 2
  /\ AsgStore(ssm) # << >>

TimesCalled(c) == Cardinality({n \in 1..Len(calls) : calls[n] = c})
IsWorkloadPatch(c) == \E id \in ScalableIds \cup CronJobIds : c \in {PatchOf(id), ResumeOf(id)}
IsGroupUpdate(c) == \E name \in AsgNames : c = UpdateOf(name)
\* No call of the kind Later follows the call c.
NoneAfter(c, Later(_)) ==
  \A a, b \in 1..Len(calls) : (calls[a] = c /\ a < b) => ~Later(calls[b])
SelectedCronJobs == IdsOf("cronjob", all_cronjobs)
SelectedGroups == Range(aws_asg_resources) \cap AsgNames

\* C17: a scale-down run writes the replica blob at most once, and only when
\* every selected workload that was running and every selected CronJob has been
\* patched, and the group blob at most once, and only when every selected group
\* that was not at zero has been updated; it reads and writes a parameter only
\* with a non-empty accumulator, and while the accumulator is empty the
\* parameter is as the run found it, missing if it was missing.
C17_OneCheckpointPerBlob ==
  action = "scale-down" =>
    /\ TimesCalled(PutOf(K8S_AWS_SSM_PARAMETER_NAME)) <= 1
    /\ TimesCalled(PutOf(ASG_AWS_SSM_PARAMETER_NAME)) <= 1
    /\ Called(PutOf(K8S_AWS_SSM_PARAMETER_NAME)) =>
         /\ \A id \in Selected : start.replicas[id] > 0 => Called(PatchOf(id))
         /\ \A id \in SelectedCronJobs : Called(ResumeOf(id))
         /\ NoneAfter(PutOf(K8S_AWS_SSM_PARAMETER_NAME), IsWorkloadPatch)
    /\ Called(PutOf(ASG_AWS_SSM_PARAMETER_NAME)) =>
         /\ \A name \in SelectedGroups : start.asg[name] # ZeroTriple => Called(UpdateOf(name))
         /\ NoneAfter(PutOf(ASG_AWS_SSM_PARAMETER_NAME), IsGroupUpdate)
    /\ pc \in {"sd_k8s_get", "sd_k8s_put"} => k8s_scaling_data # << >>
    /\ pc \in {"sd_asg_get", "sd_asg_put"} => asg_scaling_data # << >>
    /\ k8s_scaling_data = << >> =>
         /\ ~Called(PutOf(K8S_AWS_SSM_PARAMETER_NAME))
         /\ ssm[K8S_AWS_SSM_PARAMETER_NAME] = start.ssm[K8S_AWS_SSM_PARAMETER_NAME]
    /\ asg_scaling_data = << >> =>
         /\ ~Called(PutOf(ASG_AWS_SSM_PARAMETER_NAME))
         /\ ssm[ASG_AWS_SSM_PARAMETER_NAME] = start.ssm[ASG_AWS_SSM_PARAMETER_NAME]

\* A scale-down is done that wrote the replica blob once, after it patched two
\* workloads and a CronJob, and that found its group at zero: the group
\* parameter, which did not exist, still does not.
C17_Witness ==
  /\ ScaleDownDone
  /\ TimesCalled(PutOf(K8S_AWS_SSM_PARAMETER_NAME)) = 1
  /\ Len(k8s_scaling_data) = 2
  /\ SelectedCronJobs # {}
  /\ calls[Len(calls)] = PutOf(K8S_AWS_SSM_PARAMETER_NAME)
  /\ SelectedGroups # {}
  /\ asg_scaling_data = << >>
  /\ ~ssm[ASG_AWS_SSM_PARAMETER_NAME].exists

\* C18: a scale-down whose inclusion list names a Deployment, a StatefulSet or a
\* CronJob that does not exist makes no call that changes anything: at any point
\* of the run, and after it has failed, the replica counts, the suspend flags,
\* the group sizes and both parameters are what they were when it began.
C18_NoMutationOnMissingWorkload ==
  (action = "scale-down" /\ NamesMissingObject) =>
    /\ calls = << >>
    /\ replicas = start.replicas
    /\ suspend = start.suspend
    /\ asg = start.asg
    /\ ssm = start.ssm

\* A scale-down has failed whose inclusion list named a running Deployment and
\* then a Deployment that does not exist.
C18_Witness ==
  /\ action = "scale-down"
  /\ pc = "failed"
  /\ args.k8s_resources.items = WebThenGhost
  /\ \E id \in DeploymentIds : RefNames(WebThenGhost[1], id) /\ replicas[id] > 0

IsReplicaPatch(c) == \E id \in ScalableIds : c = PatchOf(id)
IsCronJobPatch(c) == \E id \in CronJobIds : c = ResumeOf(id)
IsReplicaStoreWrite(c) == c = PutOf(K8S_AWS_SSM_PARAMETER_NAME)
\* Every call of the kind Earlier that the run has made came before every call
\* of the kind Later.
AllBefore(Earlier(_), Later(_)) ==
  \A a, b \in 1..Len(calls) : (Later(calls[a]) /\ a < b) => ~Earlier(calls[b])

\* C19: in a scale-down run every workload patch, every CronJob patch and the
\* write of the replica blob come before every group update; in a scale-up run
\* every group update comes before every workload patch and every workload patch
\* before every CronJob patch, and a scale-up that has failed has patched no
\* CronJob.
C19_PhaseOrder ==
  /\ action = "scale-down" =>
       /\ AllBefore(IsReplicaPatch, IsGroupUpdate)
       /\ AllBefore(IsCronJobPatch, IsGroupUpdate)
       /\ AllBefore(IsReplicaStoreWrite, IsGroupUpdate)
  /\ action = "scale-up" =>
       /\ AllBefore(IsGroupUpdate, IsReplicaPatch)
       /\ AllBefore(IsGroupUpdate, IsCronJobPatch)
       /\ AllBefore(IsReplicaPatch, IsCronJobPatch)
       /\ pc = "failed" => \A n \in 1..Len(calls) : ~IsCronJobPatch(calls[n])

\* A scale-up is done that updated a group, then patched a workload, then a CronJob.
C19_Witness ==
  /\ ScaleUpDone
  /\ \E a, b, c \in 1..Len(calls) :
       /\ a < b /\ b < c
       /\ IsGroupUpdate(calls[a]) /\ IsReplicaPatch(calls[b]) /\ IsCronJobPatch(calls[c])

\* The objects of a working set, each once.
IsWorkingSet(objs, kind, ids) ==
  /\ IdsOf(kind, objs) = ids
  /\ Len(objs) = Cardinality(ids)

\* C20: a scale-down given an inclusion list that is present and empty works on
\* what a run without inclusion list works on: once it has fetched, its working
\* set is every Deployment, StatefulSet and CronJob of the platform that the
\* exclusion list does not name, and with an empty group inclusion list its
\* groups are all groups of the platform that the exclusion list does not name.
C20_EmptyInclusionSelectsAll ==
  action = "scale-down" =>
    /\ (args.k8s_resources = Some(<< >>) /\ pc # "sd_fetch") =>
         /\ IsWorkingSet(all_deployments, "deployment",
                         {id \in DeploymentIds : ~ExcludedByArgs(id)})
         /\ IsWorkingSet(all_statefulsets, "statefulset",
                         {id \in StatefulSetIds : ~ExcludedByArgs(id)})
         /\ IsWorkingSet(all_cronjobs, "cronjob",
                         {id \in CronJobIds : ~ExcludedByArgs(id)})
    /\ args.aws_asg_resources = Some(<< >>) =>
         /\ Range(aws_asg_resources) = {name \in AsgNames : ~GroupExcludedByArgs(name)}
         /\ Len(aws_asg_resources) = Cardinality(Range(aws_asg_resources))

\* A scale-down given two empty inclusion lists is done, and has patched both
\* workloads and the CronJob and updated the group.
C20_Witness ==
  /\ ScaleDownDone
  /\ args.k8s_resources = Some(<< >>)
  /\ args.aws_asg_resources = Some(<< >>)
  /\ \A id \in ScalableIds : Called(PatchOf(id))
  /\ \A id \in CronJobIds : Called(ResumeOf(id))
  /\ \A name \in AsgNames : Called(UpdateOf(name))

=============================================================================
